---------------------------- MODULE Spec2Model ----------------------------
(***************************************************************************)
(* Model of pynapple/process/tuning_curves.py: compute_1d_tuning_curves,   *)
(* compute_2d_tuning_curves and compute_mutual_information_1d.             *)
(*                                                                         *)
(* Numbers are exact: a float is an extended rational [k, n, d] with       *)
(* k = "fin" (the reduced fraction n/d, d > 0), "inf" (sign n) or "nan",   *)
(* and the arithmetic follows IEEE 754 on the special values (0/0 = nan,   *)
(* x/0 = inf, 0*inf = nan).  Rounding is not modelled.  log2 of a positive *)
(* rational other than 1 is kept symbolic.                                 *)
(***************************************************************************)
EXTENDS Integers, Sequences, FiniteSets

\* ------------------------------------------------------------------ bounds
\* number of samples of the feature
NSamples == 2
\* feature values are the integers 0..MaxVal
MaxVal == 2
\* nb_bins ranges over 2..MaxBins
MaxBins == 4
\* events in the whole group
MaxEvents == 2
\* feature.rate ranges over 1..MaxRate
MaxRate == 2

\* ------------------------------------------------------- extended rationals
Abs(x) == IF x < 0 THEN -x ELSE x

RECURSIVE Gcd(_, _)
Gcd(a, b) == IF b = 0 THEN a ELSE Gcd(b, a % b)

NaN == [k |-> "nan", n |-> 0, d |-> 0]

Inf(s) == [k |-> "inf", n |-> s, d |-> 0]

\* the fraction n/d, d # 0, reduced and with a positive denominator
Fin(n, d) ==
    LET g == Gcd(Abs(n), Abs(d))
        s == IF d < 0 THEN -1 ELSE 1
    IN  [k |-> "fin", n |-> (s * n) \div g, d |-> (s * d) \div g]

Num(i) == [k |-> "fin", n |-> i, d |-> 1]

Zero == Num(0)

IsNaN(x) == x.k = "nan"

IsInf(x) == x.k = "inf"

IsFin(x) == x.k = "fin"

Sign(x) == IF x.n > 0 THEN 1 ELSE IF x.n < 0 THEN -1 ELSE 0

\* x < y, false when either is nan
Less(x, y) ==
    CASE IsNaN(x) \/ IsNaN(y) -> FALSE
      [] IsInf(x) /\ IsInf(y) -> x.n < y.n
      [] IsInf(x) -> x.n < 0
      [] IsInf(y) -> y.n > 0
      [] OTHER -> x.n * y.d < y.n * x.d

Leq(x, y) == ~IsNaN(x) /\ ~IsNaN(y) /\ ~Less(y, x)

Add(x, y) ==
    CASE IsNaN(x) \/ IsNaN(y) -> NaN
      [] IsInf(x) /\ IsInf(y) -> IF x.n = y.n THEN x ELSE NaN
      [] IsInf(x) -> x
      [] IsInf(y) -> y
      [] OTHER -> Fin(x.n * y.d + y.n * x.d, x.d * y.d)

Neg(x) == IF IsNaN(x) THEN NaN ELSE [x EXCEPT !.n = -x.n]

Sub(x, y) == Add(x, Neg(y))

Mul(x, y) ==
    CASE IsNaN(x) \/ IsNaN(y) -> NaN
      [] IsInf(x) \/ IsInf(y) ->
            IF Sign(x) * Sign(y) = 0 THEN NaN ELSE Inf(Sign(x) * Sign(y))
      [] OTHER -> Fin(x.n * y.n, x.d * y.d)

Div(x, y) ==
    CASE IsNaN(x) \/ IsNaN(y) -> NaN
      [] IsInf(x) /\ IsInf(y) -> NaN
      [] IsInf(x) -> Inf(x.n * (IF Sign(y) < 0 THEN -1 ELSE 1))
      [] IsInf(y) -> Zero
      [] y.n = 0 -> IF x.n = 0 THEN NaN ELSE Inf(Sign(x))
      [] OTHER -> Fin(x.n * y.d, x.d * y.n)

\* ------------------------------------------------------------ sequences
Range(s) == {s[i] : i \in DOMAIN s}

RECURSIVE SumSeq(_)
SumSeq(s) == IF s = <<>> THEN Zero ELSE Add(Head(s), SumSeq(Tail(s)))

MinOf(S) == CHOOSE x \in S : \A y \in S : x <= y

MaxOf(S) == CHOOSE x \in S : \A y \in S : x >= y


\* ------------------------------------------------------------ numpy calls
\* np.linspace(start, stop, num), num >= 2: num evenly spaced edges
linspace(start, stop, num) ==
    LET step == Div(Sub(stop, start), Num(num - 1))
    IN  [i \in 1..num |->
            IF i = num THEN stop ELSE Add(Mul(Num(i - 1), step), start)]

\* np.diff(a)
diff(a) == [i \in 1..(Len(a) - 1) |-> Sub(a[i + 1], a[i])]

\* bins[0:-1] + np.diff(bins)/2
centers(bins) ==
    LET half == [i \in DOMAIN diff(bins) |-> Div(diff(bins)[i], Num(2))]
    IN  [i \in 1..(Len(bins) - 1) |-> Add(bins[i], half[i])]

\* sorted(values).searchsorted(e, 'left'): how many values are < e
searchsorted_left(values, e) ==
    Cardinality({i \in DOMAIN values : Less(Num(values[i]), e)})

\* sorted(values).searchsorted(e, 'right'): how many values are <= e
searchsorted_right(values, e) ==
    Cardinality({i \in DOMAIN values : Leq(Num(values[i]), e)})

\* np.histogram(values, bins) with an array of edges: the differences of the
\* cumulative counts at the edges, the last edge taken from the right, so
\* every bin is [e_i, e_i+1) and the last one [e_i, e_i+1]
histogram(values, bins) ==
    LET cum_n == [i \in 1..Len(bins) |->
                    IF i = Len(bins) THEN searchsorted_right(values, bins[i])
                    ELSE searchsorted_left(values, bins[i])]
    IN  [i \in 1..(Len(bins) - 1) |-> cum_n[i + 1] - cum_n[i]]

\* np.histogramdd's bin number of one coordinate: searchsorted(edges, v,
\* 'right'), a value on the last edge moved into the last bin; 0 and
\* Len(edges) are the outliers
bin_number(v, edges) ==
    LET c == Cardinality({j \in DOMAIN edges : Leq(edges[j], Num(v))})
    IN  IF Num(v) = edges[Len(edges)] THEN c - 1 ELSE c

\* np.histogram2d(x, y, [binsx, binsy])
histogram2d(x, y, binsx, binsy) ==
    LET nx == [s \in DOMAIN x |-> bin_number(x[s], binsx)]
        ny == [s \in DOMAIN y |-> bin_number(y[s], binsy)]
    IN  [i \in 1..(Len(binsx) - 1) |-> [j \in 1..(Len(binsy) - 1) |->
            Cardinality({s \in DOMAIN x : nx[s] = i /\ ny[s] = j})]]

\* ------------------------------------------- the containers of pynapple.core
None == <<>>

\* sample i of the feature is taken at time 2 * i
Times == {2 * i : i \in 1..NSamples}

\* an event falls on a sample or half way to the next one
EventTimes == 2..(2 * NSamples + 1)

\* IntervalSet: t is in one of the [start, end) intervals
InEp(t, ep) == \E i \in DOMAIN ep : ep[i].start <= t /\ t < ep[i].end

RECURSIVE SelectIdx(_, _, _)
\* the indices i of 1..n, in order, that satisfy keep[i]
SelectIdx(keep, i, n) ==
    IF i > n THEN <<>>
    ELSE (IF keep[i] THEN <<i>> ELSE <<>>) \o SelectIdx(keep, i + 1, n)

\* Tsd.restrict(ep) / Ts.restrict(ep): the samples whose time is in ep
restrict(tsd, ep) ==
    LET keep == [i \in DOMAIN tsd.t |-> InEp(tsd.t[i], ep)]
        sel == SelectIdx(keep, 1, Len(tsd.t))
    IN  [tsd EXCEPT !.t = [i \in DOMAIN sel |-> tsd.t[sel[i]]],
                    !.values = [i \in DOMAIN sel |-> tsd.values[sel[i]]]]

\* Ts.restrict(ep): the event times that are in ep
restrict_ts(ts, ep) ==
    LET keep == [i \in DOMAIN ts.t |-> InEp(ts.t[i], ep)]
        sel == SelectIdx(keep, 1, Len(ts.t))
    IN  [t |-> [i \in DOMAIN sel |-> ts.t[sel[i]]]]

\* nap.TsGroup(dict, time_support = ep): the members in the dict's order,
\* each restricted to ep
TsGroup(data, ep) ==
    [isDict |-> FALSE,
     items |-> [i \in DOMAIN data.items |->
                  [key |-> data.items[i].key,
                   ts |-> restrict_ts(data.items[i].ts, ep)]]]

\* list(group.keys())
keys(group) == [i \in DOMAIN group.items |-> group.items[i].key]

\* the sample of tsd closest in time to t (the earlier one on a tie)
closest(tsd, t) ==
    CHOOSE i \in DOMAIN tsd.t :
        \A j \in DOMAIN tsd.t :
            \/ Abs(tsd.t[i] - t) < Abs(tsd.t[j] - t)
            \/ Abs(tsd.t[i] - t) = Abs(tsd.t[j] - t) /\ i <= j

\* TsGroup.value_from(tsd, ep): per member, the value of the restricted
\* feature at each of the member's times inside ep
value_from(group, tsd, ep) ==
    LET f == restrict(tsd, ep)
        val(ts) ==
            LET r == restrict_ts(ts, ep)
            IN  IF Len(f.t) = 0 THEN [t |-> <<>>, values |-> <<>>]
                ELSE [t |-> r.t,
                      values |-> [i \in DOMAIN r.t |->
                                    f.values[closest(f, r.t[i])]]]
    IN  [i \in DOMAIN group.items |->
            [key |-> group.items[i].key, ts |-> val(group.items[i].ts)]]

\* pd.DataFrame(index = idx, columns = cols): every cell not-a-number
DataFrame(idx, cols) ==
    [index |-> idx,
     columns |-> cols,
     data |-> [c \in Range(cols) |-> [i \in DOMAIN idx |-> NaN]]]

\* df[k] = col: replaces column k, or appends it when df has no column k
SetColumn(df, k, col) ==
    IF k \in Range(df.columns)
    THEN [df EXCEPT !.data[k] = col]
    ELSE [df EXCEPT !.columns = Append(df.columns, k),
                    !.data = [c \in Range(df.columns) \cup {k} |->
                                IF c = k THEN col ELSE df.data[c]]]

\* ------------------------------------------------ compute_1d_tuning_curves
\* lines 41-44: the bin edges, from the feature or from minmax
bins_1d(values, nb, mm) ==
    IF mm = None
    THEN linspace(Num(MinOf(Range(values))), Num(MaxOf(Range(values))), nb)
    ELSE linspace(Num(mm[1]), Num(mm[2]), nb)

\* a bug: the columns sorted by key
columns_1d_sorted(g) ==
    LET ks == keys(g)
    IN  IF Len(ks) = 2 /\ ks[1] > ks[2] THEN <<ks[2], ks[1]>> ELSE ks

\* line 47: columns = list(group.keys())
columns_1d(g) == keys(g)

\* line 49: occupancy, _ = np.histogram(feature.values, bins)
occupancy_1d(feat, e, bins) == histogram(feat.values, bins)

\* a bug: line 54 left out, 0/0 stays not-a-number
column_1d_nofill(values, bins, occ, rate) ==
    LET count == histogram(values, bins)
        ratio == [i \in DOMAIN count |-> Div(Num(count[i]), Num(occ[i]))]
    IN  [i \in DOMAIN ratio |-> Mul(ratio[i], Num(rate))]

\* a bug: line 56 left out, the column of line 55 stays
column_1d_norate(values, bins, occ, rate) ==
    LET count == histogram(values, bins)
        ratio == [i \in DOMAIN count |-> Div(Num(count[i]), Num(occ[i]))]
    IN  [i \in DOMAIN ratio |-> IF IsNaN(ratio[i]) THEN Zero ELSE ratio[i]]

\* a bug: line 56 divides by the rate
column_1d_divrate(values, bins, occ, rate) ==
    LET count == histogram(values, bins)
        ratio == [i \in DOMAIN count |-> Div(Num(count[i]), Num(occ[i]))]
        filled == [i \in DOMAIN ratio |->
                     IF IsNaN(ratio[i]) THEN Zero ELSE ratio[i]]
    IN  [i \in DOMAIN filled |-> Div(filled[i], Num(rate))]

\* lines 52-56: one member's column
column_1d(values, bins, occ, rate) ==
    LET count == histogram(values, bins)
        ratio == [i \in DOMAIN count |-> Div(Num(count[i]), Num(occ[i]))]
        filled == [i \in DOMAIN ratio |->
                     IF IsNaN(ratio[i]) THEN Zero ELSE ratio[i]]
    IN  [i \in DOMAIN filled |-> Mul(filled[i], Num(rate))]

RECURSIVE fill_1d(_, _, _, _, _, _)
\* lines 51-56: the loop over group_value, from member i on
fill_1d(tuning_curves, group_value, i, bins, occ, rate) ==
    IF i > Len(group_value) THEN tuning_curves
    ELSE fill_1d(SetColumn(tuning_curves, group_value[i].key,
                           column_1d(group_value[i].ts.values, bins, occ, rate)),
                 group_value, i + 1, bins, occ, rate)

compute_1d_tuning_curves(grp, feat, e, nb, mm) ==
    LET g == IF grp.isDict THEN TsGroup(grp, e) ELSE grp
        group_value == value_from(g, feat, e)
        bins == bins_1d(feat.values, nb, mm)
        idx == centers(bins)
        tuning_curves == DataFrame(idx, columns_1d(g))
        occ == occupancy_1d(feat, e, bins)
    IN  fill_1d(tuning_curves, group_value, 1, bins, occ, feat.rate)

\* the locals bins and occupancy of that call
locals_1d(feat, e, nb, mm) ==
    LET bins == bins_1d(feat.values, nb, mm)
    IN  [bins |-> bins, occupancy |-> occupancy_1d(feat, e, bins)]

\* ------------------------------------------------ compute_2d_tuning_curves
\* feature[c]: one channel of a TsdFrame as a Tsd
channel(feat, c) == [t |-> feat.t, values |-> feat.values[c], rate |-> feat.rate]

\* a bug: line 103 reads minmax[i], minmax[i+1]
bins_2d_shifted(values, i, nb, mm) ==
    IF mm = None
    THEN linspace(Num(MinOf(Range(values))), Num(MaxOf(Range(values))), nb)
    ELSE linspace(Num(mm[i + 1]), Num(mm[i + 2]), nb)

\* lines 100-103: the edges of channel number i (0 or 1, as enumerate counts)
bins_2d(values, i, nb, mm) ==
    IF mm = None
    THEN linspace(Num(MinOf(Range(values))), Num(MaxOf(Range(values))), nb)
    ELSE linspace(Num(mm[(i + (i % 2)) + 1]), Num(mm[(i + 1 + (i % 2)) + 1]), nb)

\* lines 98-104: binsxy, by channel number
binsxy_2d(feat, nb, mm) ==
    [i \in DOMAIN feat.columns |->
        bins_2d(feat.values[feat.columns[i]], i - 1, nb, mm)]

\* lines 106-109: the occupancy of the (x, y) samples
occupancy_2d(feat, binsxy) ==
    histogram2d(feat.values[feat.columns[1]], feat.values[feat.columns[2]],
                binsxy[1], binsxy[2])

\* lines 118-120: one member's array
array_2d(count, occ, rate) ==
    [i \in DOMAIN count |-> [j \in DOMAIN count[i] |->
        Mul(Div(Num(count[i][j]), Num(occ[i][j])), Num(rate))]]

\* groups_value[c][n]: member n of a TsGroup
member(grp, n) == grp[CHOOSE i \in DOMAIN grp : grp[i].key = n]

\* a bug: line 91 tests feature.shape[1] < 2
not_2d_less(feat) == Len(feat.columns) < 2

\* line 91: feature.shape[1] != 2
not_2d(feat) == Len(feat.columns) # 2

\* lines 112-120: the arrays of the members keys_g
arrays_2d(keys_g, vx, vy, binsxy, occ, rate) ==
    [n \in Range(keys_g) |->
        array_2d(histogram2d(member(vx, n).ts.values, member(vy, n).ts.values,
                             binsxy[1], binsxy[2]),
                 occ, rate)]

compute_2d_tuning_curves(grp, feat, e, nb, mm) ==
    IF not_2d(feat)
    THEN [raised |-> "RuntimeError", keys |-> <<>>, tc |-> <<>>, xy |-> <<>>]
    ELSE
    LET g == IF grp.isDict THEN TsGroup(grp, e) ELSE grp
        cols == feat.columns
        groups_value == [c \in Range(cols) |-> value_from(g, channel(feat, c), e)]
        binsxy == binsxy_2d(feat, nb, mm)
        occ == occupancy_2d(feat, binsxy)
    IN  [raised |-> "",
         keys |-> keys(g),
         tc |-> arrays_2d(keys(g), groups_value[cols[1]], groups_value[cols[2]],
                          binsxy, occ, feat.rate),
         xy |-> [i \in DOMAIN cols |-> centers(binsxy[i])]]

\* the locals binsxy and occupancy of that call
locals_2d(feat, nb, mm) ==
    IF not_2d(feat) THEN [bins |-> <<>>, occupancy |-> <<>>]
    ELSE LET binsxy == binsxy_2d(feat, nb, mm)
         IN  [bins |-> binsxy, occupancy |-> occupancy_2d(feat, binsxy)]

\* ------------------------------------------- compute_mutual_information_1d
LNaN == [k |-> "nan", s |-> 0, a |-> Zero]

LInf(s) == [k |-> "inf", s |-> s, a |-> Zero]

LZero == [k |-> "zero", s |-> 0, a |-> Zero]

\* np.log2(x): exact on nan, negatives, 0, 1 and inf; log2 of any other
\* positive x is the symbol [k |-> "log", a |-> x], of sign s
log2(x) ==
    CASE IsNaN(x) -> LNaN
      [] IsInf(x) -> IF x.n > 0 THEN LInf(1) ELSE LNaN
      [] x.n < 0 -> LNaN
      [] x.n = 0 -> LInf(-1)
      [] x = Num(1) -> LZero
      [] OTHER -> [k |-> "log", s |-> IF Less(x, Num(1)) THEN -1 ELSE 1, a |-> x]

\* line 181: logfx[np.isinf(logfx)] = 0.0
suppress_inf(l) == IF l.k = "inf" THEN LZero ELSE l

SNaN == [k |-> "nan", s |-> 0, terms |-> <<>>]

SInf(s) == [k |-> "inf", s |-> s, terms |-> <<>>]

\* a finite sum of terms c * log2(a); no terms: exactly 0
SSum(terms) == [k |-> "sum", s |-> 0, terms |-> terms]

\* q * l for a float q and a logarithm l
term(q, l) ==
    CASE IsNaN(q) \/ l.k = "nan" -> SNaN
      [] l.k = "zero" -> IF IsInf(q) THEN SNaN ELSE SSum(<<>>)
      [] Sign(q) = 0 -> IF l.k = "inf" THEN SNaN ELSE SSum(<<>>)
      [] IsInf(q) \/ l.k = "inf" -> SInf(Sign(q) * l.s)
      [] OTHER -> SSum(<<[c |-> q, a |-> l.a]>>)

\* x + y for two such sums
plus(x, y) ==
    CASE x.k = "nan" \/ y.k = "nan" -> SNaN
      [] x.k = "inf" /\ y.k = "inf" -> IF x.s = y.s THEN x ELSE SNaN
      [] x.k = "inf" -> x
      [] y.k = "inf" -> y
      [] OTHER -> SSum(x.terms \o y.terms)

RECURSIVE sum_terms(_)
\* np.sum(a, 0) down one column
sum_terms(a) == IF a = <<>> THEN SSum(<<>>) ELSE plus(Head(a), sum_terms(Tail(a)))

\* x / fr for a sum x and a float fr
over(x, fr) ==
    CASE x.k = "nan" \/ IsNaN(fr) -> SNaN
      [] x.k = "inf" -> IF IsInf(fr) THEN SNaN
                        ELSE SInf(x.s * (IF Sign(fr) < 0 THEN -1 ELSE 1))
      [] IsInf(fr) -> SSum(<<>>)
      [] fr.n = 0 -> IF x.terms = <<>> THEN SNaN ELSE SInf(0)
      [] OTHER -> SSum([i \in DOMAIN x.terms |->
                          [c |-> Div(x.terms[i].c, fr), a |-> x.terms[i].a]])

\* line 172: occupancy, _ = np.histogram(feature.restrict(ep).values, bins)
occupancy_mi(feat, e, bins) == histogram(restrict(feat, e).values, bins)

\* line 173: occupancy = occupancy / occupancy.sum()
normalize(occ) ==
    LET total == SumSeq([i \in DOMAIN occ |-> Num(occ[i])])
    IN  [i \in DOMAIN occ |-> Div(Num(occ[i]), total)]

\* line 176: fr = np.sum(fx * occupancy, 0), for one column fx
mean_rate(fx, occ) == SumSeq([i \in DOMAIN fx |-> Mul(fx[i], occ[i])])

\* a bug: the branches of line 184 swapped
finish_swapped(S, fr, bitssecond) == IF bitssecond THEN over(S, fr) ELSE S

\* lines 184-189: bits per second as it is, bits per spike divided by fr
finish(S, fr, bitssecond) == IF bitssecond THEN S ELSE over(S, fr)

\* lines 176-188 for one column fx of the tuning curves
information(fx, occ, bitssecond) ==
    LET fr == mean_rate(fx, occ)
        fxfr == [i \in DOMAIN fx |-> Div(fx[i], fr)]
        logfx == [i \in DOMAIN fx |-> suppress_inf(log2(fxfr[i]))]
        S == sum_terms([i \in DOMAIN fx |-> term(Mul(occ[i], fx[i]), logfx[i])])
    IN  finish(S, fr, bitssecond)

\* tc is a pandas.DataFrame here (lines 156-158)
compute_mutual_information_1d(curves, feat, e, mm, bitssecond) ==
    LET columns == curves.columns
        nb == Len(curves.index) + 1
        bins == bins_1d(feat.values, nb, mm)
        occ == normalize(occupancy_mi(feat, e, bins))
    IN  [index |-> columns,
         SI |-> [c \in Range(columns) |->
                   information(curves.data[c], occ, bitssecond)]]

\* the locals bins and occupancy (as line 172 leaves it) of that call
locals_mi(curves, feat, e, mm) ==
    LET bins == bins_1d(feat.values, Len(curves.index) + 1, mm)
    IN  [bins |-> bins, occupancy |-> occupancy_mi(feat, e, bins)]

\* ------------------------------------------------------------------ state
VARIABLES
    group,         \* the group: a dict or a TsGroup of Ts
    feature,       \* the feature: a Tsd (1-D) or a TsdFrame (2-D)
    ep,            \* the IntervalSet
    nb_bins,       \* nb_bins
    pc,            \* the caller's position: the last call made
    tc,            \* compute_1d_tuning_curves(..., minmax = None)
    locals,        \* bins and occupancy of the call with minmax = None
    minmax,        \* the bounds passed to the call with minmax
    tc_minmax,     \* compute_1d_tuning_curves(..., minmax)
    locals_minmax, \* bins and occupancy of the call with minmax
    k,             \* the factor of the call with a scaled rate
    tc_rate,       \* compute_1d_tuning_curves with feature.rate * k
    SI,            \* compute_mutual_information_1d(tc, ..., bitssecond = False)
    SI_second,     \* the same with bitssecond = True
    locals_SI,     \* bins and occupancy of compute_mutual_information_1d
    tc2d,          \* compute_2d_tuning_curves(..., minmax = None)
    tc2d_minmax    \* compute_2d_tuning_curves(..., minmax)

vars == <<group, feature, ep, nb_bins, pc, tc, locals, minmax, tc_minmax,
          locals_minmax, k, tc_rate, SI, SI_second, locals_SI, tc2d,
          tc2d_minmax>>

inputs == <<group, feature, ep, nb_bins>>

\* -------------------------------------------------------------- the inputs
RECURSIVE SortedSeq(_)
\* the elements of a set of integers in increasing order
SortedSeq(S) ==
    IF S = {} THEN <<>> ELSE <<MinOf(S)>> \o SortedSeq(S \ {MinOf(S)})

RECURSIVE Intervals(_)
\* the IntervalSet that holds exactly the samples S: its maximal runs
Intervals(S) ==
    IF S = {} THEN <<>>
    ELSE LET a == MinOf(S)
             b == MinOf({x \in a..(NSamples + 1) : x \notin S})
         IN  <<[start |-> 2 * a, end |-> 2 * b]>> \o Intervals({x \in S : x > b})

\* the interval sets that cover some of the samples, each with the half
\* step after it
Eps == {Intervals(S) : S \in SUBSET (1..NSamples) \ {{}}}

Values == 0..MaxVal

Rates == 1..MaxRate

NbBins == 2..MaxBins

\* a Ts: at most MaxEvents increasing event times
TsSet == {[t |-> SortedSeq(S)] :
            S \in {T \in SUBSET EventTimes : Cardinality(T) <= MaxEvents}}

Keys == {1, 2}

\* the events of two members: at most n in all
TsPairs(n) == {p \in TsSet \X TsSet : Len(p[1].t) + Len(p[2].t) <= n}

\* two members: first and the other key, as a dict or as a TsGroup
Group(d, first, p) ==
    [isDict |-> d,
     items |-> <<[key |-> first, ts |-> p[1]],
                 [key |-> CHOOSE x \in Keys : x # first, ts |-> p[2]]>>]

\* the dicts in key order 1, 2 with at most MaxEvents events, and the dicts
\* in key order 2, 1 and the TsGroups in either order with one event fewer
Groups ==
    {Group(TRUE, 1, p) : p \in TsPairs(MaxEvents)}
    \cup {Group(d, first, p) :
            d \in BOOLEAN, first \in Keys, p \in TsPairs(MaxEvents - 1)}

Tsds == {[t |-> SortedSeq(Times), values |-> v, rate |-> r] :
            v \in [1..NSamples -> Values], r \in Rates}

\* (min, max) with min <= max
Bounds1d == {m \in Values \X Values : m[1] <= m[2]}

Factors == {2, 3}

Channels == <<"x", "y", "z">>

\* a TsdFrame of the channels cols, sampled at MaxRate
Frame(cols, v) ==
    [t |-> SortedSeq(Times), columns |-> cols,
     values |-> [c \in Range(cols) |-> v[c]], rate |-> MaxRate]

\* the frames of two channels, and those of one and of three channels
\* (where y repeats x and z is 0)
Frames ==
    {Frame(SubSeq(Channels, 1, 2), [x |-> vx, y |-> vy]) :
        vx \in [1..NSamples -> Values], vy \in [1..NSamples -> Values]}
    \cup {Frame(SubSeq(Channels, 1, 1), [x |-> vx]) :
        vx \in [1..NSamples -> Values]}
    \cup {Frame(Channels, [x |-> vx, y |-> vx, z |-> [i \in 1..NSamples |-> 0]]) :
        vx \in [1..NSamples -> Values]}

\* dicts whose first member alone has events
Groups2d ==
    {Group(TRUE, 1, p) : p \in {q \in TsPairs(MaxEvents - 1) : q[2].t = <<>>}}

\* the feature's own (minx, maxx, miny, maxy)
Observed2d(feat) ==
    <<MinOf(Range(feat.values["x"])), MaxOf(Range(feat.values["x"])),
      MinOf(Range(feat.values["y"])), MaxOf(Range(feat.values["y"]))>>

\* (minx, maxx, miny, maxy): the feature's own bounds, and those that start
\* at 0 in x and end at MaxVal in y
Bounds2d(feat) ==
    {<<0, b, MaxVal - b, MaxVal>> : b \in 1..MaxVal}
    \cup (IF not_2d(feat) THEN {} ELSE {Observed2d(feat)})

NotRun == <<>>

\* nothing has been called
Fresh ==
    /\ tc = NotRun
    /\ locals = NotRun
    /\ minmax = None
    /\ tc_minmax = NotRun
    /\ locals_minmax = NotRun
    /\ k = 1
    /\ tc_rate = NotRun
    /\ SI = NotRun
    /\ SI_second = NotRun
    /\ locals_SI = NotRun
    /\ tc2d = NotRun
    /\ tc2d_minmax = NotRun

\* a caller of the 1-D functions
Init ==
    /\ group \in Groups
    /\ feature \in Tsds
    /\ ep \in Eps
    /\ nb_bins \in NbBins
    /\ pc = "start"
    /\ Fresh

\* a caller of compute_2d_tuning_curves
Init2d ==
    /\ group \in Groups2d
    /\ feature \in Frames
    /\ ep \in Eps
    /\ nb_bins \in NbBins
    /\ pc = "start2d"
    /\ Fresh

\* ------------------------------------------------------------- the calls
\* compute_1d_tuning_curves(group, feature, ep, nb_bins)
TuningCurves1d ==
    /\ pc = "start"
    /\ tc' = compute_1d_tuning_curves(group, feature, ep, nb_bins, None)
    /\ locals' = locals_1d(feature, ep, nb_bins, None)
    /\ pc' = "tc"
    /\ UNCHANGED <<inputs, minmax, tc_minmax, locals_minmax, k, tc_rate, SI,
                   SI_second, locals_SI, tc2d, tc2d_minmax>>

\* compute_1d_tuning_curves(group, feature, ep, nb_bins, minmax = mm)
TuningCurves1dMinmax ==
    /\ pc = "tc"
    /\ \E mm \in Bounds1d :
        /\ minmax' = mm
        /\ tc_minmax' = compute_1d_tuning_curves(group, feature, ep, nb_bins, mm)
        /\ locals_minmax' = locals_1d(feature, ep, nb_bins, mm)
    /\ pc' = "tc_minmax"
    /\ UNCHANGED <<inputs, tc, locals, k, tc_rate, SI, SI_second, locals_SI,
                   tc2d, tc2d_minmax>>

\* compute_1d_tuning_curves on the same feature with f times its rate
TuningCurves1dRate ==
    /\ pc = "tc"
    /\ \E f \in Factors :
        /\ k' = f
        /\ tc_rate' = compute_1d_tuning_curves(
                          group, [feature EXCEPT !.rate = feature.rate * f],
                          ep, nb_bins, None)
    /\ pc' = "tc_rate"
    /\ UNCHANGED <<inputs, tc, locals, minmax, tc_minmax, locals_minmax, SI,
                   SI_second, locals_SI, tc2d, tc2d_minmax>>

\* compute_mutual_information_1d(tc, feature, ep)
MutualInformation ==
    /\ pc = "tc"
    /\ SI' = compute_mutual_information_1d(tc, feature, ep, None, FALSE)
    /\ locals_SI' = locals_mi(tc, feature, ep, None)
    /\ pc' = "SI"
    /\ UNCHANGED <<inputs, tc, locals, minmax, tc_minmax, locals_minmax, k,
                   tc_rate, SI_second, tc2d, tc2d_minmax>>

\* compute_mutual_information_1d(tc, feature, ep, bitssecond = True)
MutualInformationSecond ==
    /\ pc = "SI"
    /\ SI_second' = compute_mutual_information_1d(tc, feature, ep, None, TRUE)
    /\ pc' = "SI_second"
    /\ UNCHANGED <<inputs, tc, locals, minmax, tc_minmax, locals_minmax, k,
                   tc_rate, SI, locals_SI, tc2d, tc2d_minmax>>

\* compute_2d_tuning_curves(group, feature, ep, nb_bins)
TuningCurves2d ==
    /\ pc = "start2d"
    /\ tc2d' = compute_2d_tuning_curves(group, feature, ep, nb_bins, None)
    /\ locals' = locals_2d(feature, nb_bins, None)
    /\ pc' = "tc2d"
    /\ UNCHANGED <<inputs, tc, minmax, tc_minmax, locals_minmax, k, tc_rate,
                   SI, SI_second, locals_SI, tc2d_minmax>>

\* compute_2d_tuning_curves(group, feature, ep, nb_bins, minmax = mm)
TuningCurves2dMinmax ==
    /\ pc = "tc2d"
    /\ \E mm \in Bounds2d(feature) :
        /\ minmax' = mm
        /\ tc2d_minmax' = compute_2d_tuning_curves(group, feature, ep, nb_bins, mm)
        /\ locals_minmax' = locals_2d(feature, nb_bins, mm)
    /\ pc' = "tc2d_minmax"
    /\ UNCHANGED <<inputs, tc, locals, tc_minmax, k, tc_rate, SI, SI_second,
                   locals_SI, tc2d>>

Next ==
    \/ TuningCurves1d
    \/ TuningCurves1dMinmax
    \/ TuningCurves1dRate
    \/ MutualInformation
    \/ MutualInformationSecond

Next2d ==
    \/ TuningCurves2d
    \/ TuningCurves2dMinmax

NextAll ==
    \/ Next
    \/ Next2d

\* the callers of the 1-D functions
Spec == Init /\ [][Next]_vars

\* the callers of compute_2d_tuning_curves
Spec2d == Init2d /\ [][Next2d]_vars

\* both
SpecAll == (Init2d \/ Init) /\ [][NextAll]_vars

\* ------------------------------------------------------------- the claims
\* compute_1d_tuning_curves(..., minmax = None) has returned
Called1d == pc \in {"tc", "tc_minmax", "tc_rate", "SI", "SI_second"}

\* compute_mutual_information_1d(..., bitssecond = False) has returned
CalledSI == pc \in {"SI", "SI_second"}

\* compute_2d_tuning_curves(..., minmax = None) has returned
Called2d == pc \in {"tc2d", "tc2d_minmax"}

\* the feature's own (min, max)
Observed1d == <<MinOf(Range(feature.values)), MaxOf(Range(feature.values))>>

\* v is in bin i of the edges bins: [e_i, e_i+1), the last bin [e_i, e_i+1]
InBin(v, bins, i) ==
    /\ Leq(bins[i], Num(v))
    /\ \/ Less(Num(v), bins[i + 1])
       \/ i = Len(bins) - 1 /\ Num(v) = bins[i + 1]

\* how many of vals are in bin i
CountIn(vals, bins, i) ==
    Cardinality({j \in DOMAIN vals : InBin(vals[j], bins, i)})

\* midpoint i of nb edges evenly spaced from lo to hi
Midpoint(lo, hi, nb, i) ==
    Fin((2 * (nb - 1) - (2 * i - 1)) * lo + (2 * i - 1) * hi, 2 * (nb - 1))

\* the aligned values of member c
AlignedValues(c) == member(value_from(group, feature, ep), c).ts.values

\* some cell of the table df is not 0
SomeRate(df) ==
    \E c \in Range(df.columns) : \E i \in DOMAIN df.data[c] : df.data[c][i] # Zero

\* the table df has nb_bins - 1 rows at the midpoints of the edges from lo
\* to hi and the group's keys, in their order, as columns
Shape1d(df, lo, hi) ==
    /\ Len(df.index) = nb_bins - 1
    /\ \A i \in 1..(nb_bins - 1) : df.index[i] = Midpoint(lo, hi, nb_bins, i)
    /\ Len(df.columns) = Len(group.items)
    /\ \A i \in DOMAIN group.items : df.columns[i] = group.items[i].key
    /\ DOMAIN df.data = Range(df.columns)
    /\ \A c \in Range(df.columns) : DOMAIN df.data[c] = 1..(nb_bins - 1)

ZeroFilled(df, loc) ==
    \A c \in Range(df.columns) : \A i \in DOMAIN df.data[c] :
        /\ IsFin(df.data[c][i])
        /\ CountIn(feature.values, loc.bins, i) = 0 => df.data[c][i] = Zero

\* C2: in compute_1d_tuning_curves the cell of every bin that holds no
\* sample of the feature is exactly 0 for every member, with and without
\* minmax, and no cell is infinite or not-a-number.
C2_ZeroOccupancy ==
    /\ Called1d => ZeroFilled(tc, locals)
    /\ pc = "tc_minmax" => ZeroFilled(tc_minmax, locals_minmax)

C2_Witness ==
    /\ pc = "tc_minmax"
    /\ \E i \in DOMAIN locals_minmax.occupancy : locals_minmax.occupancy[i] = 0
    /\ \E i \in DOMAIN feature.t : ~InEp(feature.t[i], ep)
    /\ \E i \in DOMAIN feature.values : feature.values[i] > minmax[2]
    /\ \E c \in Range(tc.columns) : AlignedValues(c) # <<>>
    /\ SomeRate(tc_minmax)

\* C8 for one call: its table df, its locals loc and the rate it used
Normalized(df, loc, rate) ==
    \A c \in Range(df.columns) :
        /\ \A i \in DOMAIN df.data[c] :
            /\ loc.occupancy[i] = CountIn(feature.values, loc.bins, i)
            /\ loc.occupancy[i] # 0 =>
                 df.data[c][i] = Fin(CountIn(AlignedValues(c), loc.bins, i) * rate,
                                     loc.occupancy[i])
            /\ Leq(Zero, df.data[c][i])
        /\ SumSeq([i \in DOMAIN df.data[c] |->
                      Mul(df.data[c][i], Num(loc.occupancy[i]))])
             = Num(rate * Cardinality(
                    {j \in DOMAIN AlignedValues(c) :
                        \E i \in DOMAIN df.data[c] :
                            InBin(AlignedValues(c)[j], loc.bins, i)}))

\* C8: in compute_1d_tuning_curves every cell of a bin with occupancy is
\* (the member's aligned values in the bin / the feature's samples in the
\* bin) * feature.rate; so the cells times the occupancy sum to the rate
\* times the member's aligned values inside the bins, and no cell is < 0.
C8_Normalized ==
    /\ Called1d => Normalized(tc, locals, feature.rate)
    /\ pc = "tc_minmax" => Normalized(tc_minmax, locals_minmax, feature.rate)
    /\ pc = "tc_rate" => Normalized(tc_rate, locals, feature.rate * k)

C8_Witness ==
    /\ pc = "tc"
    /\ feature.rate = MaxRate
    /\ \E i \in DOMAIN feature.t : ~InEp(feature.t[i], ep)
    /\ \E c \in Range(tc.columns) : \E i \in DOMAIN tc.data[c] :
        /\ locals.occupancy[i] = 1
        /\ tc.data[c][i] = Num(2 * MaxRate)

\* C6: with the group, the samples, the interval set, nb_bins and the bounds
\* fixed, a feature of k times the rate gives k times every cell.
C6_RateLinear ==
    pc = "tc_rate" =>
        /\ tc_rate.index = tc.index
        /\ tc_rate.columns = tc.columns
        /\ \A c \in Range(tc.columns) : \A i \in DOMAIN tc.data[c] :
            tc_rate.data[c][i] = Mul(Num(k), tc.data[c][i])

C6_Witness ==
    /\ pc = "tc_rate"
    /\ k = 3
    /\ SomeRate(tc)
    /\ \E i \in DOMAIN locals.occupancy : locals.occupancy[i] = 0

\* the occupancy probability of bin i, as compute_mutual_information_1d
\* counts it
Prob(i) ==
    Fin(locals_SI.occupancy[i],
        SumSeq([j \in DOMAIN locals_SI.occupancy |->
                   Num(locals_SI.occupancy[j])]).n)

\* the mean rate of member c: the sum of its cells times the probabilities
MeanRate(c) == SumSeq([i \in DOMAIN tc.data[c] |-> Mul(tc.data[c][i], Prob(i))])

\* C7: for a member of positive mean rate, the bits per spike
\* (bitssecond = False) are the bits per second (bitssecond = True) divided
\* by the mean rate.
C7_BitsPerSpike ==
    pc = "SI_second" =>
        /\ SI.index = tc.columns
        /\ SI_second.index = tc.columns
        /\ \A c \in Range(tc.columns) :
            Less(Zero, MeanRate(c)) =>
                SI.SI[c] = over(SI_second.SI[c], MeanRate(c))

C7_Witness ==
    /\ pc = "SI_second"
    /\ \E c \in Range(tc.columns) :
        /\ Less(Num(1), MeanRate(c))
        /\ SI_second.SI[c].k = "sum"
        /\ SI_second.SI[c].terms # <<>>
        /\ SI.SI[c] # SI_second.SI[c]

\* every cell of member c is 0
AllZero(c) == \A i \in DOMAIN tc.data[c] : tc.data[c][i] = Zero

\* C4: a member whose cells are all 0 gets the information 0, not a
\* not-a-number, with bitssecond = False and with bitssecond = True.
C4_DegenerateZero ==
    /\ CalledSI =>
        \A c \in Range(tc.columns) : AllZero(c) => SI.SI[c] = SSum(<<>>)
    /\ pc = "SI_second" =>
        \A c \in Range(tc.columns) : AllZero(c) => SI_second.SI[c] = SSum(<<>>)

\* C10: compute_1d_tuning_curves and compute_mutual_information_1d count the
\* same samples, those of the feature restricted to ep, over the same edges.
C10_SameOccupancy ==
    CalledSI =>
        /\ locals_SI.bins = locals.bins
        /\ locals_SI.occupancy = locals.occupancy
        /\ \A i \in DOMAIN locals.occupancy :
            locals.occupancy[i] = CountIn(restrict(feature, ep).values, locals.bins, i)

\* the outcome r of compute_2d_tuning_curves: an error exactly for a feature
\* without two channels, else an array for every member
Outcome(r) ==
    /\ r.raised \in {"", "RuntimeError"}
    /\ r.raised = "RuntimeError" <=> Len(feature.columns) # 2
    /\ r.raised = "" =>
        /\ Len(r.keys) = Len(group.items)
        /\ \A i \in DOMAIN group.items : r.keys[i] = group.items[i].key
        /\ DOMAIN r.tc = Range(r.keys)

\* C3: compute_2d_tuning_curves raises its error when the feature does not
\* have two channels, and only then: with two channels it returns, empty
\* bins or not.
C3_InvalidDimension ==
    /\ Called2d => Outcome(tc2d)
    /\ pc = "tc2d_minmax" => Outcome(tc2d_minmax)

C3_Witness ==
    /\ pc = "tc2d_minmax"
    /\ Len(feature.columns) = 3
    /\ tc2d.raised = "RuntimeError"
    /\ tc2d_minmax.raised = "RuntimeError"

\* the arrays of r are (nb_bins-1) x (nb_bins-1), finite, and 0 where occ is
Suppressed(r, occ) ==
    \A n \in Range(r.keys) :
        /\ DOMAIN r.tc[n] = 1..(nb_bins - 1)
        /\ \A i \in 1..(nb_bins - 1) :
            /\ DOMAIN r.tc[n][i] = 1..(nb_bins - 1)
            /\ \A j \in 1..(nb_bins - 1) :
                /\ IsFin(r.tc[n][i][j])
                /\ occ[i][j] = 0 => r.tc[n][i][j] = Zero

\* C9: compute_2d_tuning_curves fills the bins without occupancy with 0 as
\* the 1-D function does, so no array holds a not-a-number or an infinity.
C9_Suppressed2d ==
    /\ (Called2d /\ tc2d.raised = "") => Suppressed(tc2d, locals.occupancy)
    /\ (pc = "tc2d_minmax" /\ tc2d_minmax.raised = "") =>
            Suppressed(tc2d_minmax, locals_minmax.occupancy)

\* C5: bounds equal to the feature's own minimum and maximum give the edges
\* and the result of minmax = None, in 1-D and in 2-D; in 2-D the edges of
\* the first channel run from minmax[0] to minmax[1] and those of the
\* second from minmax[2] to minmax[3].
C5_Bounds ==
    /\ (pc = "tc_minmax" /\ minmax = Observed1d) =>
        /\ locals_minmax = locals
        /\ tc_minmax = tc
    /\ (pc = "tc2d_minmax" /\ tc2d_minmax.raised = "") =>
        /\ locals_minmax.bins[1][1] = Num(minmax[1])
        /\ locals_minmax.bins[1][nb_bins] = Num(minmax[2])
        /\ locals_minmax.bins[2][1] = Num(minmax[3])
        /\ locals_minmax.bins[2][nb_bins] = Num(minmax[4])
        /\ minmax = Observed2d(feature) =>
            /\ locals_minmax = locals
            /\ tc2d_minmax = tc2d

C5_Witness ==
    /\ pc = "tc2d_minmax"
    /\ tc2d_minmax.raised = ""
    /\ minmax = Observed2d(feature)
    /\ minmax[1] < minmax[2]
    /\ minmax[2] # minmax[3]
    /\ minmax[3] < minmax[4]

============================================================================
